---- MODULE Spec2Model ----
(***************************************************************************)
(* Model of the voice-agent relay (src/app.py): the POST /voice-agent      *)
(* handler, the tenacity retry wrapper around the three external calls,    *)
(* the temporary files of a request and the filesystem they live on.       *)
(* Several requests run concurrently, one worker each; every action is one *)
(* blocking step of one request.                                           *)
(*                                                                         *)
(* Texts and byte strings are sequences of small integers.  The external   *)
(* services are opaque: each may answer with a value derived from its      *)
(* input (tagged, so that the origin of a value stays visible) or with an  *)
(* empty value, or it may raise.                                           *)
(***************************************************************************)
EXTENDS Integers, Sequences, FiniteSets, TLC

\* ------------------------------------------------------------------ bounds
NumAudio == 2        \* distinct audio clips a client may upload
NumPaths == 4        \* names the temporary directory can hand out
MaxFaults == 2       \* failures injected into a run of concurrent requests

\* --------------------------------------------------------- program constants
MaxAttempts == 6     \* stop_after_attempt(6)

Requests == {"r1", "r2"}
Stages == {"transcribe_audio", "generate_chat_response", "generate_speech"}
Paths == 1..NumPaths

None == <<-1>>       \* an unassigned local, a missing form part
NoChoices == <<None>> \* chat_response unassigned
NoFile == <<-2>>     \* no file at this path
NoPath == 0
EmptyValue == <<>>   \* "" or b""

TagTranscript == 84  \* first byte of a transcript derived from its audio
TagReply == 82       \* first byte of a reply derived from its prompt
TagSpeech == 83      \* first byte of audio derived from its text

AudioInputs == {<<a>> : a \in 1..NumAudio}

\* ------------------------------------------------------ external services
\* client.audio.transcriptions.create(...).text for a file with content a
Transcripts(a) == {<<TagTranscript>> \o a, EmptyValue}
\* client.chat.completions.create(...).choices for the user message t: the
\* one reply the default n=1 asks for, or no choice, an empty reply, or a
\* second candidate after the first
Choices(t) ==
    {<<>>, <<<<TagReply>> \o t>>, <<EmptyValue>>,
     <<<<TagReply>> \o t, <<TagReply, TagReply>> \o t>>}
\* client.audio.speech.create(...): the audio bytes for the text t
Syntheses(t) == {<<TagSpeech>> \o t, EmptyValue}

\* ------------------------------------------------------------- exceptions
Exc(type, msg) == [type |-> type, msg |-> msg, last |-> ""]
NoExc == Exc("", "")
ServiceErrors == {Exc("APIConnectionError", "Connection error."),
                  Exc("RateLimitError", "You exceeded your current quota")}
OSErr == Exc("OSError", "[Errno 28] No space left on device")
NotFound == Exc("FileNotFoundError", "[Errno 2] No such file or directory")
IndexErr == Exc("IndexError", "list index out of range")

\* tenacity without reraise=True: exhaustion raises RetryError around the
\* last attempt; str() of it shows the attempt's future, not its message
RetryError(e) == [type |-> "RetryError", msg |-> "", last |-> e.type]

\* str(e) in the except clause
Str(e) ==
    IF e.type = "RetryError"
    THEN "RetryError[<Future state=finished raised " \o e.last \o ">]"
    ELSE e.msg

\* stop=stop_after_attempt(6): give up once n attempts have been made
stop_after_attempt_early(n) == n >= MaxAttempts - 1
stop_after_attempt_late(n) == n > MaxAttempts
stop_after_attempt_never(n) == FALSE
stop_after_attempt(n) == n >= MaxAttempts

\* wait=wait_random_exponential(min=1, max=60)
WaitMin == 1
WaitMax == 60
NoWait == -1         \* the wrapper did not sleep

\* tenacity's wait_exponential with multiplier 1 and base 2, after attempt n:
\* max(max(0, min), min(2 ** (n - 1), max)), the top of the window
wait_exponential(n) ==
    LET result == 2 ^ (n - 1)
        capped == IF result < WaitMax THEN result ELSE WaitMax
    IN  IF capped > WaitMin THEN capped ELSE WaitMin

\* wait_random_exponential after attempt n: a draw from the window, in whole
\* time units.  tenacity up to 8.2.2 draws random.uniform(0, high), so min
\* only lifts the top of the window; later releases draw
\* random.uniform(min, high).  The program pins no release, so the draw is any
\* value either can produce.
wait_random_exponential(n) == 0..wait_exponential(n)

\* ------------------------------------------------------------------ base64
Pad == 64            \* the '=' character; 0..63 index the base64 alphabet

\* an encoder that drops a trailing group of fewer than three bytes
RECURSIVE b64encode_lossy(_)
b64encode_lossy(s) ==
    IF Len(s) < 3 THEN <<>>
    ELSE <<s[1] \div 4, (s[1] % 4) * 16 + (s[2] \div 16),
           (s[2] % 16) * 4 + (s[3] \div 64), s[3] % 64>>
         \o b64encode_lossy(SubSeq(s, 4, Len(s)))

\* base64.b64encode(data).decode('utf-8'), as indices into the alphabet
RECURSIVE b64encode(_)
b64encode(s) ==
    IF Len(s) = 0 THEN <<>>
    ELSE IF Len(s) = 1
    THEN <<s[1] \div 4, (s[1] % 4) * 16, Pad, Pad>>
    ELSE IF Len(s) = 2
    THEN <<s[1] \div 4, (s[1] % 4) * 16 + (s[2] \div 16), (s[2] % 16) * 4, Pad>>
    ELSE <<s[1] \div 4, (s[1] % 4) * 16 + (s[2] \div 16),
           (s[2] % 16) * 4 + (s[3] \div 64), s[3] % 64>>
         \o b64encode(SubSeq(s, 4, Len(s)))

\* base64.b64decode, the inverse the client applies to audio_base64
RECURSIVE b64decode(_)
b64decode(s) ==
    IF Len(s) < 4 THEN <<>>
    ELSE (IF s[3] = Pad
          THEN <<s[1] * 4 + (s[2] \div 16)>>
          ELSE IF s[4] = Pad
          THEN <<s[1] * 4 + (s[2] \div 16), (s[2] % 16) * 16 + (s[3] \div 4)>>
          ELSE <<s[1] * 4 + (s[2] \div 16), (s[2] % 16) * 16 + (s[3] \div 4),
                 (s[3] % 4) * 64 + s[4]>>)
         \o b64decode(SubSeq(s, 5, Len(s)))

\* s is well-formed base64: whole groups of four characters of the
\* alphabet, padding only at the very end
IsBase64(s) ==
    /\ Len(s) % 4 = 0
    /\ \A i \in 1..Len(s) : s[i] \in 0..Pad
    /\ \A i \in 1..Len(s) :
          s[i] = Pad => /\ i >= Len(s) - 1
                        /\ \A j \in i..Len(s) : s[j] = Pad

VARIABLES
    upload,            \* request.files.get('audio'): the bytes, or None
    pc,                \* where each request's handler stands
    temp_audio,        \* temp_audio.name
    temp_audio_path,
    user_input,
    chat_response,     \* chat_response.choices
    text_response,
    temp_speech,       \* temp_speech.name
    temp_speech_path,
    speech_response,
    audio_base64,
    response,          \* what the handler returned
    fs,                \* the temporary directory: path -> content
    attempts,          \* calls made of each stage's external service
    last_attempt,      \* what the latest failed attempt raised
    raised,            \* the exception the except clause caught
    slept,             \* the wait before the next attempt, if the wrapper slept
    faults             \* failures the environment may still inject

locals == <<temp_audio, temp_audio_path, user_input, chat_response,
            text_response, temp_speech, temp_speech_path, speech_response,
            audio_base64>>
vars == <<upload, pc, locals, response, fs, attempts, last_attempt, raised,
          slept, faults>>

NoResponse == [status |-> 0, body |-> [none |-> TRUE]]

\* every local unassigned, the temporary directory empty
InitLocals ==
    /\ temp_audio = [r \in Requests |-> NoPath]
    /\ temp_audio_path = [r \in Requests |-> NoPath]
    /\ user_input = [r \in Requests |-> None]
    /\ chat_response = [r \in Requests |-> NoChoices]
    /\ text_response = [r \in Requests |-> None]
    /\ temp_speech = [r \in Requests |-> NoPath]
    /\ temp_speech_path = [r \in Requests |-> NoPath]
    /\ speech_response = [r \in Requests |-> None]
    /\ audio_base64 = [r \in Requests |-> None]
    /\ response = [r \in Requests |-> NoResponse]
    /\ fs = [p \in Paths |-> NoFile]
    /\ attempts = [r \in Requests |-> [s \in Stages |-> 0]]
    /\ last_attempt = [r \in Requests |-> NoExc]
    /\ raised = [r \in Requests |-> NoExc]
    /\ slept = [r \in Requests |-> NoWait]

\* one request arrives; the environment may fail any call
Init ==
    /\ upload \in [Requests -> AudioInputs \cup {None}]
    /\ pc = [r \in Requests |-> IF r = "r1" THEN "check_audio" ELSE "idle"]
    /\ upload["r2"] = None
    /\ faults = 3 * MaxAttempts + 3
    /\ InitLocals

\* all requests arrive together, one worker each
InitConcurrent ==
    /\ upload \in [Requests -> AudioInputs \cup {None}]
    /\ pc = [r \in Requests |-> "check_audio"]
    /\ faults = MaxFaults
    /\ InitLocals

\* lines 124-160: the handler's steps, in program order
PipelineSwapped ==
    <<"check_audio", "mk_audio", "save_audio", "chat", "transcribe",
      "mk_speech", "speech", "stream", "read", "rm_audio", "rm_speech", "done">>
Pipeline ==
    <<"check_audio", "mk_audio", "save_audio", "transcribe", "chat",
      "mk_speech", "speech", "stream", "read", "rm_audio", "rm_speech", "done">>

\* the step the handler goes on to when step has not raised
Follows(step) ==
    LET i == CHOOSE k \in 1..Len(Pipeline) : Pipeline[k] = step
    IN  Pipeline[i + 1]

\* the environment makes a call raise
InjectFault ==
    /\ faults > 0
    /\ faults' = faults - 1

\* ------------------------------------------------------- the handler's exits
\* except Exception as e: return jsonify({"error": str(e)}), 500
ErrorBodyPartial(r, e) ==
    IF text_response[r] = None THEN [error |-> Str(e)]
    ELSE [error |-> Str(e), text_response |-> text_response[r]]
ErrorBody(r, e) == [error |-> Str(e)]

\* the classes of the exceptions above, all subclasses of Exception
ExceptionTypes ==
    {"APIConnectionError", "RateLimitError", "OSError", "FileNotFoundError",
     "IndexError", "RetryError"}

\* except Exception: the clause takes e when e is an instance of Exception
CaughtRetryErrorOnly(e) == e.type = "RetryError"
Caught(e) == e.type \in ExceptionTypes

\* what the framework answers when an exception leaves the handler
Propagated == [status |-> 500, body |-> [html |-> "Internal Server Error"]]

\* e is raised inside the try block of request r
Except(r, e) ==
    /\ raised' = [raised EXCEPT ![r] = e]
    /\ response' = [response EXCEPT ![r] =
           IF Caught(e) THEN [status |-> 500, body |-> ErrorBody(r, e)]
           ELSE Propagated]
    /\ pc' = [pc EXCEPT ![r] = "done"]

\* mkstemp: a name no existing file has.  Names are interchangeable, so the
\* least unused one stands for whichever random name mkstemp draws.
FreePathsAny(f) == Paths
FreePaths(f) ==
    LET unused == {p \in Paths : f[p] = NoFile}
    IN  {p \in unused : \A q \in unused : p <= q}


\* ---------------------------------------------------------------- ingress
\* 'audio' in request.files
HasAudioUnchecked(r) == TRUE
HasAudio(r) == upload[r] # None

\* lines 124-127: the missing-audio precondition
CheckAudio(r) ==
    /\ pc[r] = "check_audio"
    /\ IF HasAudio(r)
       THEN /\ pc' = [pc EXCEPT ![r] = Follows("check_audio")]
            /\ UNCHANGED <<response>>
       ELSE /\ response' = [response EXCEPT ![r] =
                   [status |-> 400, body |-> [error |-> "No audio file provided"]]]
            /\ pc' = [pc EXCEPT ![r] = "done"]
    /\ UNCHANGED <<slept, upload, locals, fs, attempts, last_attempt, raised, faults>>

\* line 130: tempfile.NamedTemporaryFile(suffix=".wav", delete=False)
MkAudio(r) ==
    /\ pc[r] = "mk_audio"
    /\ \/ \E p \in FreePaths(fs) :
            /\ fs' = [fs EXCEPT ![p] = EmptyValue]
            /\ temp_audio' = [temp_audio EXCEPT ![r] = p]
            /\ pc' = [pc EXCEPT ![r] = Follows("mk_audio")]
            /\ UNCHANGED <<response, raised, faults>>
       \/ /\ Except(r, OSErr)
          /\ InjectFault
          /\ UNCHANGED <<fs, temp_audio>>
    /\ UNCHANGED <<slept, upload, temp_audio_path, user_input, chat_response,
                   text_response, temp_speech, temp_speech_path,
                   speech_response, audio_base64, attempts, last_attempt>>

\* lines 131-132: audio_file.save(temp_audio.name); temp_audio_path = ...
SaveAudio(r) ==
    /\ pc[r] = "save_audio"
    /\ \/ /\ fs' = [fs EXCEPT ![temp_audio[r]] = upload[r]]
          /\ temp_audio_path' = [temp_audio_path EXCEPT ![r] = temp_audio[r]]
          /\ pc' = [pc EXCEPT ![r] = Follows("save_audio")]
          /\ UNCHANGED <<response, raised, faults>>
       \/ /\ Except(r, OSErr)
          /\ InjectFault
          /\ UNCHANGED <<fs, temp_audio_path>>
    /\ UNCHANGED <<slept, upload, temp_audio, user_input, chat_response,
                   text_response, temp_speech, temp_speech_path,
                   speech_response, audio_base64, attempts, last_attempt>>

\* ----------------------------------------------------------- retry wrapper
\* @retry(wait=..., stop=stop_after_attempt(6)): one more attempt of stage s
\* has been made and raised e
\* a missing file fails by itself; any other failure is the environment's
Charge(e) == IF e = NotFound THEN UNCHANGED faults ELSE InjectFault

AttemptFails(r, s, e) ==
    /\ attempts' = [attempts EXCEPT ![r][s] = @ + 1]
    /\ last_attempt' = [last_attempt EXCEPT ![r] = e]
    /\ Charge(e)
    /\ IF stop_after_attempt(attempts[r][s] + 1)
       THEN /\ Except(r, RetryError(e))
            /\ slept' = [slept EXCEPT ![r] = NoWait]
       ELSE /\ \E w \in wait_random_exponential(attempts[r][s] + 1) :
                  slept' = [slept EXCEPT ![r] = w]
            /\ UNCHANGED <<pc, response, raised>>

\* one more attempt of stage s has been made and returned; an answer other
\* than the plain one (empty, or not exactly one choice) is the environment's
\* doing as well
AttemptSucceeds(r, s, empty) ==
    /\ attempts' = [attempts EXCEPT ![r][s] = @ + 1]
    /\ last_attempt' = [last_attempt EXCEPT ![r] = NoExc]
    /\ slept' = [slept EXCEPT ![r] = NoWait]
    /\ IF empty THEN InjectFault ELSE UNCHANGED faults

\* what open(file_path, "rb") and the service call can raise
TranscribeErrors(r) ==
    ServiceErrors \cup
        (IF fs[temp_audio_path[r]] = NoFile THEN {NotFound} ELSE {})

\* lines 101-104 and 135-136
Transcribe(r) ==
    /\ pc[r] = "transcribe"
    /\ \/ /\ fs[temp_audio_path[r]] # NoFile
          /\ \E t \in Transcripts(fs[temp_audio_path[r]]) :
                /\ user_input' = [user_input EXCEPT ![r] = t]
                /\ AttemptSucceeds(r, "transcribe_audio", Len(t) = 0)
          /\ pc' = [pc EXCEPT ![r] = Follows("transcribe")]
          /\ UNCHANGED <<response, raised>>
       \/ /\ \E e \in TranscribeErrors(r) : AttemptFails(r, "transcribe_audio", e)
          /\ UNCHANGED <<user_input>>
    /\ UNCHANGED <<upload, temp_audio, temp_audio_path, chat_response,
                   text_response, temp_speech, temp_speech_path,
                   speech_response, audio_base64, fs>>

\* lines 106-114 and 139-140
Chat(r) ==
    /\ pc[r] = "chat"
    /\ \/ /\ \E c \in Choices(user_input[r]) :
                /\ chat_response' = [chat_response EXCEPT ![r] = c]
                /\ IF Len(c) = 0
                   THEN /\ Except(r, IndexErr)
                        /\ UNCHANGED <<text_response>>
                   ELSE /\ text_response' = [text_response EXCEPT ![r] = c[1]]
                        /\ pc' = [pc EXCEPT ![r] = Follows("chat")]
                        /\ UNCHANGED <<response, raised>>
                /\ AttemptSucceeds(r, "generate_chat_response",
                                   Len(c) # 1 \/ Len(c[1]) = 0)
       \/ /\ \E e \in ServiceErrors : AttemptFails(r, "generate_chat_response", e)
          /\ UNCHANGED <<chat_response, text_response>>
    /\ UNCHANGED <<upload, temp_audio, temp_audio_path, user_input,
                   temp_speech, temp_speech_path, speech_response,
                   audio_base64, fs>>

\* line 143: tempfile.NamedTemporaryFile(suffix=".mp3", delete=False)
MkSpeech(r) ==
    /\ pc[r] = "mk_speech"
    /\ \/ \E p \in FreePaths(fs) :
            /\ fs' = [fs EXCEPT ![p] = EmptyValue]
            /\ temp_speech' = [temp_speech EXCEPT ![r] = p]
            /\ pc' = [pc EXCEPT ![r] = Follows("mk_speech")]
            /\ UNCHANGED <<response, raised, faults>>
       \/ /\ Except(r, OSErr)
          /\ InjectFault
          /\ UNCHANGED <<fs, temp_speech>>
    /\ UNCHANGED <<slept, upload, temp_audio, temp_audio_path, user_input,
                   chat_response, text_response, temp_speech_path,
                   speech_response, audio_base64, attempts, last_attempt>>

\* lines 116-118 and 144
Speech(r) ==
    /\ pc[r] = "speech"
    /\ \/ /\ \E a \in Syntheses(text_response[r]) :
                /\ speech_response' = [speech_response EXCEPT ![r] = a]
                /\ AttemptSucceeds(r, "generate_speech", Len(a) = 0)
          /\ pc' = [pc EXCEPT ![r] = Follows("speech")]
          /\ UNCHANGED <<response, raised>>
       \/ /\ \E e \in ServiceErrors : AttemptFails(r, "generate_speech", e)
          /\ UNCHANGED <<speech_response>>
    /\ UNCHANGED <<upload, temp_audio, temp_audio_path, user_input,
                   chat_response, text_response, temp_speech,
                   temp_speech_path, audio_base64, fs>>

\* lines 145-146: speech_response.stream_to_file(temp_speech.name)
Stream(r) ==
    /\ pc[r] = "stream"
    /\ \/ /\ fs' = [fs EXCEPT ![temp_speech[r]] = speech_response[r]]
          /\ temp_speech_path' = [temp_speech_path EXCEPT ![r] = temp_speech[r]]
          /\ pc' = [pc EXCEPT ![r] = Follows("stream")]
          /\ UNCHANGED <<response, raised, faults>>
       \/ /\ Except(r, OSErr)
          /\ InjectFault
          /\ UNCHANGED <<fs, temp_speech_path>>
    /\ UNCHANGED <<slept, upload, temp_audio, temp_audio_path, user_input,
                   chat_response, text_response, temp_speech,
                   speech_response, audio_base64, attempts, last_attempt>>

\* what open(path) / read() / os.remove(path) can raise
FileErrors(p) == {OSErr} \cup (IF fs[p] = NoFile THEN {NotFound} ELSE {})

\* lines 149-151: read the speech file back and encode it
ReadBack(r) ==
    /\ pc[r] = "read"
    /\ \/ /\ fs[temp_speech_path[r]] # NoFile
          /\ audio_base64' = [audio_base64 EXCEPT ![r] =
                                 b64encode(fs[temp_speech_path[r]])]
          /\ pc' = [pc EXCEPT ![r] = Follows("read")]
          /\ UNCHANGED <<response, raised, faults>>
       \/ /\ \E e \in FileErrors(temp_speech_path[r]) : Except(r, e) /\ Charge(e)
          /\ UNCHANGED <<audio_base64>>
    /\ UNCHANGED <<slept, upload, temp_audio, temp_audio_path, user_input,
                   chat_response, text_response, temp_speech,
                   temp_speech_path, speech_response, fs, attempts,
                   last_attempt>>

\* line 154: os.remove(temp_audio_path)
RemoveAudio(r) ==
    /\ pc[r] = "rm_audio"
    /\ \/ /\ fs[temp_audio_path[r]] # NoFile
          /\ fs' = [fs EXCEPT ![temp_audio_path[r]] = NoFile]
          /\ pc' = [pc EXCEPT ![r] = Follows("rm_audio")]
          /\ UNCHANGED <<response, raised, faults>>
       \/ /\ \E e \in FileErrors(temp_audio_path[r]) : Except(r, e) /\ Charge(e)
          /\ UNCHANGED <<fs>>
    /\ UNCHANGED <<slept, upload, locals, attempts, last_attempt>>

\* lines 157-160: return jsonify({...})
SuccessBody(r) ==
    [text_response |-> text_response[r], audio_base64 |-> audio_base64[r]]

\* lines 155-160: os.remove(temp_speech_path), then the success response
RemoveSpeech(r) ==
    /\ pc[r] = "rm_speech"
    /\ \/ /\ fs[temp_speech_path[r]] # NoFile
          /\ fs' = [fs EXCEPT ![temp_speech_path[r]] = NoFile]
          /\ response' = [response EXCEPT ![r] =
                             [status |-> 200, body |-> SuccessBody(r)]]
          /\ pc' = [pc EXCEPT ![r] = Follows("rm_speech")]
          /\ UNCHANGED <<raised, faults>>
       \/ /\ \E e \in FileErrors(temp_speech_path[r]) : Except(r, e) /\ Charge(e)
          /\ UNCHANGED <<fs>>
    /\ UNCHANGED <<slept, upload, locals, attempts, last_attempt>>

Next ==
    \E r \in Requests :
        \/ CheckAudio(r)
        \/ MkAudio(r)
        \/ SaveAudio(r)
        \/ Transcribe(r)
        \/ Chat(r)
        \/ MkSpeech(r)
        \/ Speech(r)
        \/ Stream(r)
        \/ ReadBack(r)
        \/ RemoveAudio(r)
        \/ RemoveSpeech(r)

Spec == Init /\ [][Next]_vars
SpecConcurrent == InitConcurrent /\ [][Next]_vars

\* the worker keeps running its request: every call it makes returns or
\* raises, and the handler then takes its next step
SpecLive == Init /\ [][Next]_vars /\ WF_vars(Next)


\* =================================================================== claims

\* stage s has returned a result to the handler of request r
StageOk(r, s) ==
    IF s = "transcribe_audio" THEN user_input[r] # None
    ELSE IF s = "generate_chat_response" THEN chat_response[r] # NoChoices
    ELSE speech_response[r] # None

\* stage s has used up its attempts without a result
Exhausted(r, s) == attempts[r][s] >= MaxAttempts /\ ~StageOk(r, s)

Done(r) == pc[r] = "done"

\* C1: once the handler has returned, neither temporary file the request
\* created still exists, whatever the outcome.
C1_TempFilesRemoved ==
    \A r \in Requests :
        Done(r) =>
            /\ temp_audio_path[r] # NoPath => fs[temp_audio_path[r]] = NoFile
            /\ temp_speech_path[r] # NoPath => fs[temp_speech_path[r]] = NoFile

\* C2: when a stage's attempts are used up, the except clause catches the
\* exception of the last attempt itself, and the 500 body's error string is
\* str() of that exception.
C2_ExhaustionSurfacesLastException ==
    \A r \in Requests : \A s \in Stages :
        (Done(r) /\ Exhausted(r, s)) =>
            /\ raised[r] = last_attempt[r]
            /\ response[r].body.error = Str(last_attempt[r])

\* C3: once all stages have succeeded and the audio has been read back and
\* encoded, the request answers 200 with the success payload, even when
\* removing a temporary file fails.
C3_CleanupFailureKeepsSuccess ==
    \A r \in Requests :
        (Done(r) /\ audio_base64[r] # None) =>
            response[r] = [status |-> 200, body |-> SuccessBody(r)]

\* C4: the retry budget is exactly six attempts per stage.  No stage is
\* attempted a seventh time; a request is failed by the retry wrapper only
\* when some stage has failed six times, and then it ends with a 500; a
\* request in which a stage succeeded on its sixth attempt and nothing else
\* raised ends with the 200 success payload.
C4_RetryBudgetBoundary ==
    \A r \in Requests :
        /\ \A s \in Stages : attempts[r][s] <= 6
        /\ \A s \in Stages :
              (attempts[r][s] = 6 /\ ~StageOk(r, s)) =>
                  /\ Done(r)
                  /\ response[r].status = 500
                  /\ raised[r].type = "RetryError"
        /\ raised[r].type = "RetryError" =>
              \E s \in Stages : attempts[r][s] = 6 /\ ~StageOk(r, s)
        /\ (/\ Done(r)
            /\ raised[r] = NoExc
            /\ \E s \in Stages : attempts[r][s] = 6 /\ StageOk(r, s)) =>
              response[r] = [status |-> 200, body |-> SuccessBody(r)]

\* every stage failed five times and succeeded on the sixth attempt, and the
\* request ended with 200
C4_Witness ==
    /\ \A s \in Stages : attempts["r1"][s] = 6 /\ StageOk("r1", s)
    /\ response["r1"].status = 200

\* C5: when transcription fails on every attempt of its budget, completion
\* and synthesis are never called, and the response is a 500 whose body
\* holds an error and nothing else.
C5_TranscriptionExhaustionAborts ==
    \A r \in Requests :
        Exhausted(r, "transcribe_audio") =>
            /\ attempts[r]["generate_chat_response"] = 0
            /\ attempts[r]["generate_speech"] = 0
            /\ Done(r)
            /\ response[r].status = 500
            /\ DOMAIN response[r].body = {"error"}

C5_Witness ==
    /\ Exhausted("r1", "transcribe_audio")
    /\ Done("r1")

\* C6: a request without an 'audio' part answers 400 with the fixed
\* message, creates no temporary file and calls no external service.
C6_MissingAudioIs400 ==
    \A r \in Requests :
        upload[r] = None =>
            /\ Done(r) => response[r] = [status |-> 400,
                              body |-> [error |-> "No audio file provided"]]
            /\ temp_audio[r] = NoPath
            /\ temp_speech[r] = NoPath
            /\ \A s \in Stages : attempts[r][s] = 0
            /\ pc[r] \in {"idle", "check_audio", "done"}
            /\ (\A q \in Requests : upload[q] = None) =>
                   \A p \in Paths : fs[p] = NoFile

C6_Witness == upload["r1"] = None /\ Done("r1")

\* C7: a request gets exactly one response, set when the handler ends and
\* never changed; it is either the success payload with both text_response
\* and audio_base64, or an error payload with error alone, also when the
\* completion had already produced a reply.
C7_ResponseShape ==
    \A r \in Requests :
        /\ Done(r) <=> response[r] # NoResponse
        /\ Done(r) =>
              \/ /\ response[r].status = 200
                 /\ DOMAIN response[r].body = {"text_response", "audio_base64"}
                 /\ response[r].body = SuccessBody(r)
              \/ /\ response[r].status \in {400, 500}
                 /\ DOMAIN response[r].body = {"error"}

C7_AllOrNothing ==
    /\ []C7_ResponseShape
    /\ [][\A r \in Requests :
             response[r] # NoResponse => response'[r] = response[r]]_vars

\* the completion produced a reply, a later step failed
C7_Witness ==
    /\ text_response["r1"] # None
    /\ Done("r1")
    /\ response["r1"].status = 500

\* C8: with requests running concurrently, a success response is derived
\* from the request's own upload: text_response is a completion of a
\* transcript of its own audio, audio_base64 encodes a synthesis of that
\* text_response.
C8_NoCrossTalk ==
    \A r \in Requests :
        response[r].status = 200 =>
            /\ \E t \in Transcripts(upload[r]) :
                  \E c \in Choices(t) :
                      Len(c) > 0 /\ response[r].body.text_response = c[1]
            /\ \E a \in Syntheses(response[r].body.text_response) :
                  response[r].body.audio_base64 = b64encode(a)

\* two requests with different clips both succeeded, each with a reply that
\* shows its own clip
C8_Witness ==
    /\ upload["r1"] # upload["r2"]
    /\ \A r \in Requests :
          /\ response[r].status = 200
          /\ response[r].body.text_response =
                 <<TagReply, TagTranscript>> \o upload[r]
          /\ b64decode(response[r].body.audio_base64) =
                 <<TagSpeech, TagReply, TagTranscript>> \o upload[r]

\* C9: a 200 response carries a non-empty text_response and an audio_base64
\* that is non-empty, well-formed base64 and decodes to at least one byte.
C9_SuccessIsNonEmpty ==
    \A r \in Requests :
        (response[r].status = 200 /\ Len(upload[r]) > 0) =>
            /\ Len(response[r].body.text_response) > 0
            /\ Len(response[r].body.audio_base64) > 0
            /\ IsBase64(response[r].body.audio_base64)
            /\ Len(b64decode(response[r].body.audio_base64)) > 0

\* C10: the stages run in the order transcription, completion, synthesis.
\* A stage is first attempted only after the one before it has succeeded,
\* a stage that has used up its attempts ends the request with no later
\* stage attempted, and no stage is attempted again once it has succeeded.
C10_StagesInOrder ==
    \A r \in Requests :
        /\ attempts[r]["generate_chat_response"] > 0 =>
               StageOk(r, "transcribe_audio")
        /\ attempts[r]["generate_speech"] > 0 =>
               StageOk(r, "generate_chat_response")
        /\ \A s \in Stages : Exhausted(r, s) =>
               /\ Done(r)
               /\ \A s2 \in Stages : s2 # s => (StageOk(r, s2) \/ attempts[r][s2] = 0)

C10_Sequential ==
    /\ []C10_StagesInOrder
    /\ [][\A r \in Requests : \A s \in Stages :
             (StageOk(r, s) \/ Exhausted(r, s)) =>
                 attempts'[r][s] = attempts[r][s]]_vars

\* all three stages ran, each after retries
C10_Witness ==
    /\ \A s \in Stages : attempts["r1"][s] > 1 /\ StageOk("r1", s)
    /\ Done("r1")

\* C11: in a success response audio_base64 decodes to exactly the bytes the
\* synthesis returned for the text_response of the same payload (writing the
\* file, reading it back and encoding lose nothing), and text_response is the
\* first choice of the completion obtained for this request's transcript.
C11_RoundTrip ==
    \A r \in Requests :
        response[r].status = 200 =>
            /\ IsBase64(response[r].body.audio_base64)
            /\ b64decode(response[r].body.audio_base64) = speech_response[r]
            /\ speech_response[r] \in Syntheses(response[r].body.text_response)
            /\ response[r].body.text_response = chat_response[r][1]
            /\ chat_response[r] \in Choices(user_input[r])
            /\ user_input[r] \in Transcripts(upload[r])

\* a success whose completion offered two candidates and whose audio is four
\* bytes long, so that the encoding ends in a padded group
C11_Witness ==
    /\ response["r1"].status = 200
    /\ Len(chat_response["r1"]) = 2
    /\ Len(speech_response["r1"]) = 4

\* request r is between its arrival and its response
InProgress(r) == pc[r] \notin {"idle", "done"}

\* the names request r was given for its temporary files
NamesOf(r) == {temp_audio[r], temp_speech[r]} \ {NoPath}

\* the temporary files request r has created and not yet removed
HeldAudio(r) ==
    /\ temp_audio[r] # NoPath
    /\ pc[r] \in {"save_audio", "transcribe", "chat", "mk_speech", "speech",
                  "stream", "read", "rm_audio"}
HeldSpeech(r) ==
    /\ temp_speech[r] # NoPath
    /\ pc[r] \in {"speech", "stream", "read", "rm_audio", "rm_speech"}
Held(r) ==
    (IF HeldAudio(r) THEN {temp_audio[r]} ELSE {})
        \cup (IF HeldSpeech(r) THEN {temp_speech[r]} ELSE {})

\* C12 as stated: at every moment the two temporary paths of a request in
\* progress differ from each other and from both paths of every other
\* request in progress.
C12_NamesDistinctWhileInProgress ==
    \A r \in Requests : InProgress(r) =>
        /\ temp_audio[r] # NoPath => temp_audio[r] # temp_speech[r]
        /\ \A q \in Requests \ {r} :
              InProgress(q) => NamesOf(r) \cap NamesOf(q) = {}

\* C12, amended: the temporary files that requests in progress have created
\* and not yet removed have pairwise different paths, and each such file
\* holds what its own request put there: no request reads, overwrites or
\* deletes a temporary file of another request.
C12_HeldFilesDistinct ==
    \A r \in Requests :
        /\ (HeldAudio(r) /\ HeldSpeech(r)) => temp_audio[r] # temp_speech[r]
        /\ \A q \in Requests \ {r} : Held(r) \cap Held(q) = {}
        /\ HeldAudio(r) =>
              fs[temp_audio[r]] =
                  (IF pc[r] = "save_audio" THEN EmptyValue ELSE upload[r])
        /\ HeldSpeech(r) =>
              fs[temp_speech[r]] =
                  (IF pc[r] \in {"speech", "stream"} THEN EmptyValue
                   ELSE speech_response[r])

\* both requests hold both of their files at once
C12_Witness ==
    /\ \A r \in Requests : HeldAudio(r) /\ HeldSpeech(r)
    /\ Cardinality(UNION {Held(r) : r \in Requests}) = 4

\* the stage the handler of request r is calling, if any
StageAt(r) ==
    IF pc[r] = "transcribe" THEN "transcribe_audio"
    ELSE IF pc[r] = "chat" THEN "generate_chat_response"
    ELSE IF pc[r] = "speech" THEN "generate_speech"
    ELSE "none"

TotalAttempts(r) ==
    attempts[r]["transcribe_audio"] + attempts[r]["generate_chat_response"]
        + attempts[r]["generate_speech"]

C14_CallsBounded ==
    \A r \in Requests :
        /\ \A s \in Stages : attempts[r][s] <= 6
        /\ TotalAttempts(r) <= 18

\* C14: as long as every call returns or raises, every request that has
\* arrived eventually gets its response, after at most 6 attempts per stage
\* and so at most 18 external calls.
C14_Terminates ==
    /\ []C14_CallsBounded
    /\ \A r \in Requests : InProgress(r) ~> Done(r)

\* a request that made all 18 calls before it was answered
C14_Witness ==
    /\ Done("r1")
    /\ TotalAttempts("r1") = 18
    /\ Exhausted("r1", "generate_speech")

\* C15: whatever step raises inside the handler, the exception does not
\* leave it: the response is 500 with a body holding error and nothing else,
\* the error being str() of what was raised; 400 is answered exactly when the
\* audio part is missing, and 200 only when nothing was raised.
C15_UniformErrorShape ==
    \A r \in Requests :
        Done(r) =>
            /\ response[r] # Propagated
            /\ response[r].status \in {200, 400, 500}
            /\ response[r].status = 500 <=> raised[r] # NoExc
            /\ response[r].status = 500 =>
                  /\ DOMAIN response[r].body = {"error"}
                  /\ response[r].body.error = Str(raised[r])
            /\ response[r].status = 400 <=> upload[r] = None

\* a failure that is not the retry wrapper's: the completion came back
\* without a choice and choices[0] raised
C15_Witness ==
    /\ Done("r1")
    /\ raised["r1"] = IndexErr
    /\ response["r1"].status = 500

====
